---- MODULE Spec2Model ----
(***************************************************************************)
(* Builder orchestrator of GROTA_LUMENA (src/BUILDER): the TaskManager,    *)
(* the task routes of the API, the dispatcher, the four bridges, the agent *)
(* registry and the inbox watcher thread.                                  *)
(*                                                                         *)
(* HTTP handlers run on one cooperative event loop: the code between two   *)
(* awaits of a handler is one block that no other handler interleaves.     *)
(* The watchdog observer thread runs _on_inbox_file concurrently with the  *)
(* event loop and there is no lock in TaskManager, so a mutator is two     *)
(* steps for either thread: the in-memory mutation, then _save.            *)
(***************************************************************************)
EXTENDS Integers, Sequences, FiniteSets, TLC

\* ------------------------------------------------------------------ bounds
MaxTasks == 1
MaxHandlers == 2
MaxQueue == 1
MaxDepTasks == 2
MaxQueueTasks == 3
MaxClients == 2
MaxProducers == 2
MaxStoreTasks == 2
MaxDebates == 1
MaxTopics == 2

\* ------------------------------------------------------------- value sets
None == "None"

Status == {"pending", "assigned", "running", "done", "failed"}

Priorities == {"critical", "high", "medium", "low"}

\* PUT /tasks/{id} carries a free string: one value outside the enumeration.
PutPriorities == Priorities \cup {"urgent"}

\* texts of result files, and of responses of the inference service
Contents == {"c1"}

Responses == {"r1"}

CANCELLED == "Cancelled by user"

\* error texts a bridge result can carry
BridgeErrors == {"Ollama HTTP 500"}

\* ------------------------------------------------------------- dispatcher
\* The declared order of the (task_type, pattern) rules.
_INTENT_PATTERNS ==
    << "code_complex", "code_feature", "code_simple", "architecture", "review",
       "reasoning", "docs", "test", "quick", "security_audit", "performance",
       "ux_design", "quality_assurance", "knowledge_rag", "tools_workflow",
       "documentation", "debate" >>

FALLBACK_TYPE == "code_simple"

\* Task texts "{title} {description}" the requests are drawn from.
Texts == {"write a fibonacci function in python",
          "refactor the auth layer for security",
          "build feature from scratch",
          "design the system blueprint"}

\* Further texts for the classifier alone: two rules tied, a later-declared
\* rule with the higher count, three rules at once, and no rule at all.
ClassifyTexts == {"review the design",
                  "test the test code",
                  "explain why the check fails",
                  "fix the api test",
                  "plan a security audit",
                  "hello world"}

\* len(pattern.findall(text)) of the rule of task_type on the text.
findall(text, task_type) ==
    CASE text = "write a fibonacci function in python" /\ task_type = "code_simple" -> 2
      [] text = "refactor the auth layer for security" /\ task_type = "code_complex" -> 2
      [] text = "build feature from scratch" /\ task_type = "code_feature" -> 2
      [] text = "design the system blueprint" /\ task_type = "architecture" -> 2
      [] text = "review the design" /\ task_type = "architecture" -> 1
      [] text = "review the design" /\ task_type = "review" -> 1
      [] text = "test the test code" /\ task_type = "code_simple" -> 1
      [] text = "test the test code" /\ task_type = "test" -> 2
      [] text = "explain why the check fails" /\ task_type = "review" -> 1
      [] text = "explain why the check fails" /\ task_type = "reasoning" -> 2
      [] text = "fix the api test" /\ task_type = "code_simple" -> 2
      [] text = "fix the api test" /\ task_type = "test" -> 1
      [] text = "plan a security audit" /\ task_type = "code_complex" -> 2
      [] text = "plan a security audit" /\ task_type = "architecture" -> 1
      [] text = "plan a security audit" /\ task_type = "security_audit" -> 1
      [] OTHER -> 0

\* max(scores, key=scores.get): the first-declared type of the highest count
\* among the types that matched, FALLBACK_TYPE when none matched.
RECURSIVE classify_from(_, _, _, _)
classify_from(text, i, best, bestCount) ==
    IF i > Len(_INTENT_PATTERNS) THEN best
    ELSE LET n == findall(text, _INTENT_PATTERNS[i])
         IN  IF n > bestCount
             THEN classify_from(text, i + 1, _INTENT_PATTERNS[i], n)
             ELSE classify_from(text, i + 1, best, bestCount)

\* the first-declared type that matches at all, whatever the counts
classify_first_match(text) ==
    IF \A i \in 1..Len(_INTENT_PATTERNS) : findall(text, _INTENT_PATTERNS[i]) = 0
    THEN FALLBACK_TYPE
    ELSE _INTENT_PATTERNS[CHOOSE i \in 1..Len(_INTENT_PATTERNS) :
             /\ findall(text, _INTENT_PATTERNS[i]) > 0
             /\ \A j \in 1..(i - 1) : findall(text, _INTENT_PATTERNS[j]) = 0]

classify(text) == classify_from(text, 1, FALLBACK_TYPE, 0)

\* ROUTING_TABLE: task_type -> agent and bridge.
ROUTING_TABLE(task_type) ==
    CASE task_type = "code_complex" -> [agent |-> "CLAUDE_LUSTRO", bridge |-> "claude"]
      [] task_type = "code_simple" -> [agent |-> "OLLAMA_WORKER", bridge |-> "ollama"]
      [] task_type = "code_feature" -> [agent |-> "CODEX", bridge |-> "codex"]
      [] task_type = "architecture" -> [agent |-> "GEMINI_ARCHITECT", bridge |-> "gemini"]
      [] task_type = "review" -> [agent |-> "CLAUDE_LUSTRO", bridge |-> "claude"]
      [] task_type \in {"docs", "test", "quick", "reasoning"} ->
             [agent |-> "OLLAMA_WORKER", bridge |-> "ollama"]
      [] task_type = "security_audit" -> [agent |-> "STROZ_SECURITY", bridge |-> "ollama"]
      [] task_type = "performance" -> [agent |-> "INZYNIER_PERF", bridge |-> "ollama"]
      [] task_type = "ux_design" -> [agent |-> "ARCHITEKT_UX", bridge |-> "ollama"]
      [] task_type = "quality_assurance" -> [agent |-> "TESTER_QA", bridge |-> "ollama"]
      [] task_type = "knowledge_rag" -> [agent |-> "NAVIGATOR_RAG", bridge |-> "ollama"]
      [] task_type = "tools_workflow" -> [agent |-> "KOWAL_TOOLS", bridge |-> "ollama"]
      [] task_type = "documentation" -> [agent |-> "KRONIKARZ_DOCS", bridge |-> "ollama"]
      [] task_type = "debate" -> [agent |-> "SZTAB", bridge |-> "ollama"]

\* Dispatcher.check_availability: the agent is not offline and holds no
\* task; true without a registry and for a name the registry does not hold.
check_availability(registry, A, agent_name) ==
    IF registry = None THEN TRUE
    ELSE IF agent_name \notin DOMAIN A THEN TRUE
    ELSE A[agent_name].status # "offline" /\ A[agent_name].current_task = 0

\* Dispatcher.find_alternative: OLLAMA_WORKER through ollama when it is
\* available (agent None: no alternative).
find_alternative(registry, A, task_type) ==
    IF registry # None /\ check_availability(registry, A, "OLLAMA_WORKER")
    THEN [agent |-> "OLLAMA_WORKER", bridge |-> "ollama"]
    ELSE [agent |-> None, bridge |-> None]

\* Dispatcher.dispatch: the rule of the classified type; with a registry, the
\* alternative when the agent of the rule is not available and there is one.
dispatch(registry, A, text) ==
    LET task_type == classify(text)
        route == ROUTING_TABLE(task_type)
        fallback_used ==
            /\ registry # None
            /\ ~check_availability(registry, A, route.agent)
            /\ find_alternative(registry, A, task_type).agent # None
    IN  [task_type |-> task_type,
         agent |-> IF fallback_used
                   THEN find_alternative(registry, A, task_type).agent ELSE route.agent,
         bridge |-> IF fallback_used
                    THEN find_alternative(registry, A, task_type).bridge ELSE route.bridge,
         fallback |-> fallback_used]

\* lifespan builds dispatcher = Dispatcher(): its registry argument is None.
dispatcher_registry == None

\* The agents the registry holds (folders of M-AI-SELF with a WHO_AM_I.md).
AgentNames == {"OLLAMA_WORKER", "CLAUDE_LUSTRO", "CODEX", "GEMINI_ARCHITECT"}

\* ------------------------------------------------------------------ state
VARIABLES
    tasks,      \* the Task objects ever created, by id (ids are fresh, never reused)
    live,       \* the keys of TaskManager._tasks: the ids not deleted
    disk,       \* the task table last written to builder_tasks.json
    agents,     \* AgentRegistry._agents: name -> [status, current_task]
    inbox,      \* files in INBOX/
    archive,    \* files in INBOX/DONE/
    feed,       \* live feed: parity of the number of broadcasts, and the last one
    handlers,   \* request handlers suspended at an await
    loop,       \* the block the event-loop thread is executing
    watcher,    \* the observer thread inside _on_inbox_file
    wq,         \* file-created events queued for the observer thread
    _clients,   \* ws.py _clients: the connected websockets, in connection order
    sockets,    \* the state of each websocket connection
    broadcasts, \* the broadcast coroutine of each producer
    commits,    \* the events of the transitions committed, in commit order
    received,   \* the events written to each websocket, in order
    decision,   \* the last call of Dispatcher.dispatch: its input and its result
    persist,    \* builder_tasks.json and the TaskManager process that writes it
    debate,     \* DebateEngine._sessions and the background debates
    cli         \* one run of builder_cli.py: its command, request and exit status

\* the task routes, the registry, the inbox and the watcher
core_vars == << tasks, live, disk, agents, inbox, archive, feed, handlers, loop,
                watcher, wq >>

\* the subscribers of the live feed and the broadcasts in progress
feed_vars == << _clients, sockets, broadcasts, commits, received >>

\* components called on their own
unit_vars == << decision, persist, debate, cli >>

vars == << tasks, live, disk, agents, inbox, archive, feed, handlers, loop,
           watcher, wq, _clients, sockets, broadcasts, commits, received,
           decision, persist, debate, cli >>

\* ------------------------------------------------------------ TaskManager
\* PRIORITY_ORDER with the ranks of high and medium exchanged
PRIORITY_ORDER_swapped(priority) ==
    CASE priority = "critical" -> 0
      [] priority = "high" -> 2
      [] priority = "medium" -> 1
      [] priority = "low" -> 3
      [] OTHER -> 99

PRIORITY_ORDER(priority) ==
    CASE priority = "critical" -> 0
      [] priority = "high" -> 1
      [] priority = "medium" -> 2
      [] priority = "low" -> 3
      [] OTHER -> 99

\* Task(title, description, priority): a pending task stamped with the clock.
\* created_at is the creation rank: datetime.now() of a later create is later.
Task(text, priority, created_at) ==
    [text |-> text, status |-> "pending", priority |-> priority,
     assigned_to |-> None, created_at |-> created_at, result |-> None,
     error |-> None, task_type |-> None, depends_on |-> << >>]

create(T, text, priority) == Append(T, Task(text, priority, Len(T) + 1))

assign(T, L, task_id, agent_name) ==
    IF task_id \notin L THEN T
    ELSE [T EXCEPT ![task_id].assigned_to = agent_name, ![task_id].status = "assigned"]

update_status(T, L, task_id, status) ==
    IF task_id \notin L THEN T ELSE [T EXCEPT ![task_id].status = status]

complete(T, L, task_id, result) ==
    IF task_id \notin L THEN T
    ELSE [T EXCEPT ![task_id].status = "done", ![task_id].result = result]

\* fail that leaves the error of the task as it was
fail_status_only(T, L, task_id, error) ==
    IF task_id \notin L THEN T ELSE [T EXCEPT ![task_id].status = "failed"]

fail(T, L, task_id, error) ==
    IF task_id \notin L THEN T
    ELSE [T EXCEPT ![task_id].status = "failed", ![task_id].error = error]

\* update(task_id, **kwargs) with one key: setattr when the attribute exists.
update(T, L, task_id, key, value) ==
    IF task_id \notin L THEN T
    ELSE CASE key = "status" -> [T EXCEPT ![task_id].status = value]
           [] key = "priority" -> [T EXCEPT ![task_id].priority = value]
           [] key = "assigned_to" -> [T EXCEPT ![task_id].assigned_to = value]
           [] key = "result" -> [T EXCEPT ![task_id].result = value]
           [] key = "error" -> [T EXCEPT ![task_id].error = value]
           [] OTHER -> T

Contains(seq, x) == \E i \in 1..Len(seq) : seq[i] = x

\* add_dependency: both ids must be stored; appended unless already listed.
add_dependency(T, L, task_id, depends_on_id) ==
    IF task_id \notin L \/ depends_on_id \notin L THEN T
    ELSE IF Contains(T[task_id].depends_on, depends_on_id) THEN T
    ELSE [T EXCEPT ![task_id].depends_on = Append(@, depends_on_id)]

\* is_ready returning after the first dependency it looks at
deps_done_first(T, L, deps, i) ==
    i > Len(deps) \/ (deps[i] \in L /\ T[deps[i]].status = "done")

\* the loop of is_ready over depends_on, from position i
RECURSIVE deps_done(_, _, _, _)
deps_done(T, L, deps, i) ==
    IF i > Len(deps) THEN TRUE
    ELSE IF deps[i] \notin L \/ T[deps[i]].status # "done" THEN FALSE
    ELSE deps_done(T, L, deps, i + 1)

is_ready(T, L, task_id) ==
    IF task_id \notin L THEN FALSE ELSE deps_done(T, L, T[task_id].depends_on, 1)

\* the sort key (PRIORITY_ORDER.get(priority, 99), created_at), compared as tuples
KeyLE(T, a, b) ==
    \/ PRIORITY_ORDER(T[a].priority) < PRIORITY_ORDER(T[b].priority)
    \/ /\ PRIORITY_ORDER(T[a].priority) = PRIORITY_ORDER(T[b].priority)
       /\ T[a].created_at <= T[b].created_at

\* sorted() is stable: an element goes after the elements whose key is <= its own.
insort(T, q, id) ==
    LET k == Cardinality({i \in 1..Len(q) : KeyLE(T, q[i], id)})
    IN  SubSeq(q, 1, k) \o << id >> \o SubSeq(q, k + 1, Len(q))

RECURSIVE sorted_from(_, _, _, _)
sorted_from(T, L, id, q) ==
    IF id > Len(T) THEN q
    ELSE IF id \in L /\ T[id].status = "pending" /\ is_ready(T, L, id)
         THEN sorted_from(T, L, id + 1, insort(T, q, id))
         ELSE sorted_from(T, L, id + 1, q)

\* pending_queue(): the ids of the ready pending tasks, in queue order
pending_queue(T, L) == sorted_from(T, L, 1, << >>)

\* next_task(): the head of the queue, 0 for None
next_task(T, L) ==
    IF pending_queue(T, L) = << >> THEN 0 ELSE Head(pending_queue(T, L))

\* get_blocked(): tasks with a dependency that is missing or not done
get_blocked(T, L) ==
    {id \in L : \E i \in 1..Len(T[id].depends_on) :
        T[id].depends_on[i] \notin L \/ T[T[id].depends_on[i]].status # "done"}

\* GET /queue: the rank of a priority in its sort key
prio(priority) ==
    CASE priority = "critical" -> 0
      [] priority = "high" -> 1
      [] priority = "medium" -> 2
      [] priority = "low" -> 3
      [] OTHER -> 9

\* queue.sort(key=(prio, created_at)) is stable: an entry goes after the
\* entries whose key is <= its own
queue_insort(T, q, id) ==
    LET le(a, b) == \/ prio(T[a].priority) < prio(T[b].priority)
                    \/ /\ prio(T[a].priority) = prio(T[b].priority)
                       /\ T[a].created_at <= T[b].created_at
        k == Cardinality({i \in 1..Len(q) : le(q[i], id)})
    IN  SubSeq(q, 1, k) \o << id >> \o SubSeq(q, k + 1, Len(q))

\* the entries of tasks.list(status="pending"), newest first, from id down
RECURSIVE get_queue_from(_, _, _, _)
get_queue_from(T, L, id, q) ==
    IF id = 0 THEN q
    ELSE IF id \in L /\ T[id].status = "pending"
         THEN get_queue_from(T, L, id - 1, queue_insort(T, q, id))
         ELSE get_queue_from(T, L, id - 1, q)

\* GET /queue: the ids of the entries of the response, in order (the entry
\* of id carries "ready": is_ready(id))
get_queue(T, L) == get_queue_from(T, L, Len(T), << >>)

\* json.dumps of the stored tasks: what _save writes
to_disk(T, L) == [id \in L |-> T[id]]

\* ---------------------------------------------------------- AgentRegistry
registry_update_status(A, name, status, task) ==
    IF name \in DOMAIN A
    THEN [A EXCEPT ![name] = [status |-> status, current_task |-> task]]
    ELSE A

\* --------------------------------------------------------------- LiveFeed
broadcast(f, event_type, task_id) ==
    [n |-> 1 - f.n, type |-> event_type, task |-> task_id]

\* ------------------------------------------------------------ inbox files
\* TASK_<id>_FOR_<AGENT>.md, RESULT_<id>_FROM_<AGENT>.md, CODEX_RESULT_<ts>.md
File(kind, task_id, agent, content) ==
    [kind |-> kind, task |-> task_id, agent |-> agent, content |-> content]

NoFile == File(None, 0, None, None)

SameName(f, g) == f.kind = g.kind /\ f.task = g.task /\ f.agent = g.agent

\* the glob with the TASK pattern left out
task_files_results(F, task_id) == {f \in F : f.kind = "RESULT" /\ f.task = task_id}

\* INBOX_DIR.glob of TASK_<id>_FOR_*.md and RESULT_<id>_FROM_*.md
task_files(F, task_id) == {f \in F : f.kind \in {"TASK", "RESULT"} /\ f.task = task_id}

\* _archive_files / _archive_task_files: rename each globbed file into DONE/
\* (replacing a file of that name); failed are the files whose rename raised,
\* which is logged and leaves the file where it is.
_archive_files(F, A, task_id, failed) ==
    LET moved == task_files(F, task_id) \ failed
    IN  [inbox |-> F \ moved,
         archive |-> {f \in A : \A g \in moved : ~SameName(f, g)} \cup moved]

\* ---------------------------------------------------------- control state
\* What a dispatch request may not touch when it is refused: the task's
\* status, assigned_to and task_type and the routed agent's registry entry.
Snapshot(task, agent) ==
    [status |-> task.status, assigned_to |-> task.assigned_to,
     task_type |-> task.task_type, agent_status |-> agent.status,
     current_task |-> agent.current_task]

\* wrote: whether a request with a bridge override has changed any of them
IdleHandler ==
    [pc |-> "idle", task |-> 0, agent |-> None, bridge |-> None, wrote |-> FALSE]

IdleLoop ==
    [pc |-> "idle", write |-> FALSE, task |-> 0, agent |-> None,
     rname |-> None, rstatus |-> None, rtask |-> 0, etype |-> None, etask |-> 0]

IdleWatcher == [pc |-> "idle", file |-> NoFile, task |-> 0]

\* The event-loop thread has run a block up to the in-memory mutation of a
\* TaskManager call. What the block does after the mutation is recorded:
\* _save when the mutator found the task (write), then
\* registry.update_status(rname, rstatus, rtask) and broadcast(etype, etask).
Block(write, rname, rstatus, rtask, etype, etask) ==
    [pc |-> "save", write |-> write, task |-> 0, agent |-> None,
     rname |-> rname, rstatus |-> rstatus, rtask |-> rtask,
     etype |-> etype, etask |-> etask]

LoopIdle == loop.pc = "idle"

\* Dispatcher.dispatch has not been called
NoDecision ==
    [text |-> None,
     A |-> [a \in AgentNames |-> [status |-> "idle", current_task |-> 0]],
     result |-> [task_type |-> None, agent |-> None, bridge |-> None, fallback |-> FALSE]]

\* a producer that has not called broadcast
\* audience: the websockets that were subscribed and healthy when the
\* broadcast was called
IdleBroadcast ==
    [pc |-> "idle", event |-> None, ws |-> 0, i |-> 0, disconnected |-> << >>,
     audience |-> {}]

\* a new request takes the first free handler slot
FreeSlot(h) ==
    /\ handlers[h].pc = "idle"
    /\ \A g \in 1..(h - 1) : handlers[g].pc # "idle"

Init ==
    /\ tasks = << >>
    /\ live = {}
    /\ disk = << >>
    /\ agents = [a \in AgentNames |-> [status |-> "idle", current_task |-> 0]]
    /\ inbox = {}
    /\ archive = {}
    /\ feed = [n |-> 0, type |-> None, task |-> 0]
    /\ handlers = [h \in 1..MaxHandlers |-> IdleHandler]
    /\ loop = IdleLoop
    /\ watcher = IdleWatcher
    /\ wq = << >>
    /\ _clients = << >>
    /\ sockets = [ws \in 1..MaxClients |-> "new"]
    /\ broadcasts = [p \in 1..MaxProducers |-> IdleBroadcast]
    /\ commits = << >>
    /\ received = [ws \in 1..MaxClients |-> << >>]
    /\ decision = NoDecision
    /\ debate = [sessions |-> << >>, runs |-> << >>]
    /\ cli = [pc |-> "shell", cmd |-> None, n |-> 0, answer |-> None, code |-> 0]
    /\ persist = [pc |-> "ready", file |-> "absent", before |-> << >>, error |-> None,
                  load_failed |-> FALSE]

\* ------------------------------------------------------- event-loop thread
\* TaskManager._save and the rest of the running block, up to its next await.
_save ==
    /\ loop.pc = "save"
    /\ disk' = IF loop.write THEN to_disk(tasks, live) ELSE disk
    /\ agents' = IF loop.rname = None THEN agents
                 ELSE registry_update_status(agents, loop.rname, loop.rstatus, loop.rtask)
    /\ feed' = IF loop.etype = None THEN feed
               ELSE broadcast(feed, loop.etype, loop.etask)
    /\ loop' = IdleLoop
    /\ UNCHANGED << tasks, live, inbox, archive, handlers, watcher, wq >>
    /\ UNCHANGED << feed_vars, unit_vars >>

\* POST /tasks: tasks.create, then tasks.assign when assigned_to is given.
create_task(text, priority, assigned_to) ==
    /\ LoopIdle
    /\ tasks' = create(tasks, text, priority)
    /\ live' = live \cup {Len(tasks) + 1}
    /\ loop' = IF assigned_to = None
               THEN Block(TRUE, None, None, 0, "task_create", Len(tasks) + 1)
               ELSE [IdleLoop EXCEPT !.pc = "create_save", !.task = Len(tasks) + 1,
                                     !.agent = assigned_to]
    /\ UNCHANGED << disk, agents, inbox, archive, feed, handlers, watcher, wq >>
    /\ UNCHANGED << feed_vars, unit_vars >>

\* create_task, from the _save of create to the mutation of assign
create_task_assign ==
    /\ loop.pc = "create_save"
    /\ disk' = to_disk(tasks, live)
    /\ tasks' = assign(tasks, live, loop.task, loop.agent)
    /\ loop' = Block(loop.task \in live, None, None, 0, "task_create", loop.task)
    /\ UNCHANGED << live, agents, inbox, archive, feed, handlers, watcher, wq >>
    /\ UNCHANGED << feed_vars, unit_vars >>

\* PUT /tasks/{id} with one field set (404 for an unknown id changes nothing).
update_task(task_id, key, value) ==
    /\ LoopIdle
    /\ task_id \in live
    /\ tasks' = update(tasks, live, task_id, key, value)
    /\ loop' = Block(TRUE, None, None, 0, None, 0)
    /\ UNCHANGED << live, disk, agents, inbox, archive, feed, handlers, watcher, wq >>
    /\ UNCHANGED << feed_vars, unit_vars >>

\* DELETE /tasks/{id}: TaskManager.delete.
delete_task(task_id) ==
    /\ LoopIdle
    /\ task_id \in live
    /\ live' = live \ {task_id}
    /\ loop' = Block(TRUE, None, None, 0, None, 0)
    /\ UNCHANGED << tasks, disk, agents, inbox, archive, feed, handlers, watcher, wq >>
    /\ UNCHANGED << feed_vars, unit_vars >>

\* TaskManager.add_dependency called on the event loop; it saves only when
\* it appended.
add_dependency_call(task_id, depends_on_id) ==
    /\ LoopIdle
    /\ task_id \in live
    /\ depends_on_id \in live
    /\ ~Contains(tasks[task_id].depends_on, depends_on_id)
    /\ tasks' = add_dependency(tasks, live, task_id, depends_on_id)
    /\ loop' = Block(TRUE, None, None, 0, None, 0)
    /\ UNCHANGED << live, disk, agents, inbox, archive, feed, handlers, watcher, wq >>
    /\ UNCHANGED << feed_vars, unit_vars >>

\* POST /tasks/{id}/dispatch, first block: 404/400 checks, dispatcher.dispatch
\* (which writes task.task_type), the overrides of the body, tasks.assign,
\* registry.update_status(agent, "active", id), broadcast task_dispatch.
\* Entered by a request, or by retry_task after its broadcast.
dispatch_task(h, task_id, agent_override, bridge_override) ==
    /\ LoopIdle
    /\ \/ FreeSlot(h)
       \/ /\ handlers[h].pc = "retry_dispatch"
          /\ handlers[h].task = task_id
          /\ agent_override = None
          /\ bridge_override = None
    /\ task_id \in live
    /\ tasks[task_id].status \notin {"running", "done"}
    /\ LET routing == dispatch(dispatcher_registry, agents, tasks[task_id].text)
           agent == IF agent_override = None THEN routing.agent ELSE agent_override
           bridge == IF bridge_override = None THEN routing.bridge ELSE bridge_override
       IN  /\ tasks' = assign([tasks EXCEPT ![task_id].task_type = routing.task_type],
                              live, task_id, agent)
           /\ handlers' = [handlers EXCEPT ![h] =
                  [pc |-> "dispatched", task |-> task_id, agent |-> agent, bridge |-> bridge,
                   wrote |-> /\ bridge_override # None
                             /\ Snapshot(tasks'[task_id],
                                    registry_update_status(agents, agent, "active",
                                                           task_id)[agent])
                                # Snapshot(tasks[task_id], agents[agent])]]
           /\ loop' = Block(TRUE, agent, "active", task_id, "task_dispatch", task_id)
    /\ UNCHANGED << live, disk, agents, inbox, archive, feed, watcher, wq >>
    /\ UNCHANGED << feed_vars, unit_vars >>

\* retry_task's call of dispatch_task answered 404 or 400: the task was
\* deleted, or is running or done again, when the broadcast returned.
dispatch_task_rejected(h) ==
    /\ LoopIdle
    /\ handlers[h].pc = "retry_dispatch"
    /\ \/ handlers[h].task \notin live
       \/ tasks[handlers[h].task].status \in {"running", "done"}
    /\ handlers' = [handlers EXCEPT ![h] = IdleHandler]
    /\ UNCHANGED << tasks, live, disk, agents, inbox, archive, feed, loop, watcher, wq >>
    /\ UNCHANGED << feed_vars, unit_vars >>

\* bridge "ollama": update_status running, broadcast task_running, then the
\* handler awaits ollama_bridge.execute.
dispatch_ollama(h) ==
    /\ LoopIdle
    /\ handlers[h].pc = "dispatched"
    /\ handlers[h].bridge = "ollama"
    /\ tasks' = update_status(tasks, live, handlers[h].task, "running")
    /\ handlers' = [handlers EXCEPT ![h].pc = "executing"]
    /\ loop' = Block(handlers[h].task \in live, None, None, 0,
                     "task_running", handlers[h].task)
    /\ UNCHANGED << live, disk, agents, inbox, archive, feed, watcher, wq >>
    /\ UNCHANGED << feed_vars, unit_vars >>

\* ollama_bridge.execute returned: complete on success, fail otherwise
\* (HTTP status other than 200, timeout, connection error), agent idle.
dispatch_ollama_result(h, success, text) ==
    /\ LoopIdle
    /\ handlers[h].pc = "executing"
    /\ tasks' = IF success
                THEN complete(tasks, live, handlers[h].task, text)
                ELSE fail(tasks, live, handlers[h].task, text)
    /\ handlers' = [handlers EXCEPT ![h] = IdleHandler]
    /\ loop' = Block(handlers[h].task \in live, handlers[h].agent, "idle", 0,
                     IF success THEN "task_complete" ELSE "task_failed",
                     handlers[h].task)
    /\ UNCHANGED << live, disk, agents, inbox, archive, feed, watcher, wq >>
    /\ UNCHANGED << feed_vars, unit_vars >>

\* the name a file-drop bridge puts in TASK_<id>_FOR_<AGENT>.md
drop_name(bridge) == IF bridge = "claude" THEN "CLAUDE" ELSE "GEMINI"

\* bridge "claude" or "gemini": execute writes the TASK file (written is
\* FALSE when write_text raises: the handler ends there with a 500), then
\* update_status running and broadcast task_running.
dispatch_file_drop(h, written) ==
    /\ LoopIdle
    /\ handlers[h].pc = "dispatched"
    /\ handlers[h].bridge \in {"claude", "gemini"}
    /\ handlers' = [handlers EXCEPT ![h] = IdleHandler]
    /\ IF written
       THEN /\ inbox' = {f \in inbox : ~SameName(f, File("TASK", handlers[h].task,
                                                   drop_name(handlers[h].bridge), None))}
                        \cup {File("TASK", handlers[h].task,
                                   drop_name(handlers[h].bridge), None)}
            /\ tasks' = update_status(tasks, live, handlers[h].task, "running")
            /\ loop' = Block(handlers[h].task \in live, None, None, 0,
                             "task_running", handlers[h].task)
       ELSE UNCHANGED << inbox, tasks, loop >>
    /\ UNCHANGED << live, disk, agents, archive, feed, watcher, wq >>
    /\ UNCHANGED << feed_vars, unit_vars >>

\* bridge "codex": execute returns success=False at once when codex_task.ps1
\* is missing, else it awaits the subprocess. The handler does not look at
\* the result: it sets the task running either way.
dispatch_codex(h, script_exists) ==
    /\ LoopIdle
    /\ handlers[h].pc = "dispatched"
    /\ handlers[h].bridge = "codex"
    /\ IF script_exists
       THEN /\ handlers' = [handlers EXCEPT ![h].pc = "codex_exec"]
            /\ UNCHANGED << tasks, loop >>
       ELSE /\ handlers' = [handlers EXCEPT ![h] = IdleHandler]
            /\ tasks' = update_status(tasks, live, handlers[h].task, "running")
            /\ loop' = Block(handlers[h].task \in live, None, None, 0,
                             "task_running", handlers[h].task)
    /\ UNCHANGED << live, disk, agents, inbox, archive, feed, watcher, wq >>
    /\ UNCHANGED << feed_vars, unit_vars >>

\* the codex subprocess ended (success: exit code 0; otherwise a non-zero
\* exit code, the 300 s timeout or an exception)
dispatch_codex_result(h, success) ==
    /\ LoopIdle
    /\ handlers[h].pc = "codex_exec"
    /\ handlers' = [handlers EXCEPT ![h] = IdleHandler]
    /\ tasks' = update_status(tasks, live, handlers[h].task, "running")
    /\ loop' = Block(handlers[h].task \in live, None, None, 0,
                     "task_running", handlers[h].task)
    /\ UNCHANGED << live, disk, agents, inbox, archive, feed, watcher, wq >>
    /\ UNCHANGED << feed_vars, unit_vars >>

\* any other bridge name: HTTPException(400), after the task was assigned
dispatch_unknown_bridge(h) ==
    /\ LoopIdle
    /\ handlers[h].pc = "dispatched"
    /\ handlers[h].bridge \notin {"ollama", "claude", "codex", "gemini"}
    /\ handlers' = [handlers EXCEPT ![h] = IdleHandler]
    /\ UNCHANGED << tasks, live, disk, agents, inbox, archive, feed, loop, watcher, wq >>
    /\ UNCHANGED << feed_vars, unit_vars >>

\* "CLAUDE" in agent / "GEMINI" in agent, for the agent names in use
result_name(agent) ==
    CASE agent = "CLAUDE_LUSTRO" -> "CLAUDE"
      [] agent = "GEMINI_ARCHITECT" -> "GEMINI"
      [] OTHER -> None

\* check_result of the claude and gemini bridges: the RESULT file, if any
check_result(F, task_id, agent) ==
    {f \in F : f.kind = "RESULT" /\ f.task = task_id /\ f.agent = result_name(agent)}

\* POST /tasks/{id}/poll of a running task whose result file is there:
\* complete, agent idle, broadcast task_complete; the archiving follows the
\* broadcast. (Every other poll returns without changing anything.)
poll_task(h, task_id) ==
    /\ LoopIdle
    /\ FreeSlot(h)
    /\ task_id \in live
    /\ tasks[task_id].status = "running"
    /\ \E f \in check_result(inbox, task_id, tasks[task_id].assigned_to) :
          tasks' = complete(tasks, live, task_id, f.content)
    /\ handlers' = [handlers EXCEPT ![h] =
           [IdleHandler EXCEPT !.pc = "poll_archive", !.task = task_id]]
    /\ loop' = Block(TRUE, tasks[task_id].assigned_to, "idle", 0,
                     "task_complete", task_id)
    /\ UNCHANGED << live, disk, agents, inbox, archive, feed, watcher, wq >>
    /\ UNCHANGED << feed_vars, unit_vars >>

\* POST /tasks/{id}/poll of a running task whose agent name contains
\* "CODEX": codex_bridge.check_result(task) is called, and CodexBridge has
\* no such method: AttributeError, answered 500, nothing changed.
poll_task_raises(task_id) ==
    /\ LoopIdle
    /\ task_id \in live
    /\ tasks[task_id].status = "running"
    /\ tasks[task_id].assigned_to = "CODEX"
    /\ UNCHANGED vars

\* _archive_task_files: move the task's TASK and RESULT files to INBOX/DONE/
poll_archive(h, failed) ==
    /\ LoopIdle
    /\ handlers[h].pc = "poll_archive"
    /\ failed \subseteq task_files(inbox, handlers[h].task)
    /\ inbox' = _archive_files(inbox, archive, handlers[h].task, failed).inbox
    /\ archive' = _archive_files(inbox, archive, handlers[h].task, failed).archive
    /\ handlers' = [handlers EXCEPT ![h] = IdleHandler]
    /\ UNCHANGED << tasks, live, disk, agents, feed, loop, watcher, wq >>
    /\ UNCHANGED << feed_vars, unit_vars >>

\* retry_task without its check of the status
retry_task_unchecked(h, task_id) ==
    /\ LoopIdle
    /\ FreeSlot(h)
    /\ task_id \in live
    /\ tasks' = [tasks EXCEPT ![task_id].status = "pending",
                              ![task_id].result = None,
                              ![task_id].error = None,
                              ![task_id].assigned_to = None,
                              ![task_id].task_type = None]
    /\ handlers' = [handlers EXCEPT ![h] =
           [IdleHandler EXCEPT !.pc = "retry_dispatch", !.task = task_id]]
    /\ loop' = Block(TRUE, None, None, 0, "task_retry", task_id)
    /\ UNCHANGED << live, disk, agents, inbox, archive, feed, watcher, wq >>
    /\ UNCHANGED << feed_vars, unit_vars >>

\* POST /tasks/{id}/retry: only for failed or done; resets the fields on the
\* stored object, tasks._save(), broadcast task_retry, then dispatch_task.
retry_task(h, task_id) ==
    /\ LoopIdle
    /\ FreeSlot(h)
    /\ task_id \in live
    /\ tasks[task_id].status \in {"failed", "done"}
    /\ tasks' = [tasks EXCEPT ![task_id].status = "pending",
                              ![task_id].result = None,
                              ![task_id].error = None,
                              ![task_id].assigned_to = None,
                              ![task_id].task_type = None]
    /\ handlers' = [handlers EXCEPT ![h] =
           [IdleHandler EXCEPT !.pc = "retry_dispatch", !.task = task_id]]
    /\ loop' = Block(TRUE, None, None, 0, "task_retry", task_id)
    /\ UNCHANGED << live, disk, agents, inbox, archive, feed, watcher, wq >>
    /\ UNCHANGED << feed_vars, unit_vars >>

\* POST /tasks/{id}/cancel: refused (400) for done or failed; otherwise
\* tasks.fail("Cancelled by user"), the assigned agent idle, task_cancelled.
cancel_task(task_id) ==
    /\ LoopIdle
    /\ task_id \in live
    /\ tasks[task_id].status \notin {"done", "failed"}
    /\ tasks' = fail(tasks, live, task_id, CANCELLED)
    /\ loop' = Block(TRUE, tasks[task_id].assigned_to, "idle", 0,
                     "task_cancelled", task_id)
    /\ UNCHANGED << live, disk, agents, inbox, archive, feed, handlers, watcher, wq >>
    /\ UNCHANGED << feed_vars, unit_vars >>

\* retry of a task that is neither failed nor done: HTTPException(400) before
\* any statement that writes.
retry_task_rejected(task_id) ==
    /\ LoopIdle
    /\ task_id \in live
    /\ tasks[task_id].status \notin {"failed", "done"}
    /\ UNCHANGED vars

\* cancel of a task that is done or failed: HTTPException(400) before any
\* statement that writes.
cancel_task_rejected(task_id) ==
    /\ LoopIdle
    /\ task_id \in live
    /\ tasks[task_id].status \in {"done", "failed"}
    /\ UNCHANGED vars

\* The await broadcast(...) a handler is suspended in raises: broadcast ends
\* with _clients.remove(ws) for every client whose send failed, which raises
\* ValueError when another coroutine removed that client first (see
\* remove_disconnected). The event had been sent; the handler ends there with a 500 and
\* runs none of its remaining statements.
broadcast_raised(h) ==
    /\ LoopIdle
    /\ handlers[h].pc \in {"dispatched", "executing", "poll_archive", "retry_dispatch"}
    /\ handlers' = [handlers EXCEPT ![h] = IdleHandler]
    /\ UNCHANGED << tasks, live, disk, agents, inbox, archive, feed, loop, watcher, wq >>
    /\ UNCHANGED << feed_vars, unit_vars >>

\* --------------------------------------------------------- observer thread
\* A worker outside the system answers a TASK file with a RESULT file in
\* INBOX/, or the codex script leaves a CODEX_RESULT file there; watchdog
\* queues the created event.
external_drop(f) ==
    /\ Len(wq) < MaxQueue
    /\ \/ /\ f.kind = "RESULT"
          /\ File("TASK", f.task, f.agent, None) \in inbox
          /\ \A g \in inbox : ~SameName(f, g)
          /\ inbox' = inbox \cup {f}
       \/ /\ f.kind = "CODEX_RESULT"
          /\ f \notin inbox
          /\ inbox' = inbox \cup {f}
    /\ wq' = Append(wq, f)
    /\ UNCHANGED << tasks, live, disk, agents, archive, feed, handlers, loop, watcher >>
    /\ UNCHANGED << feed_vars, unit_vars >>

\* tasks.list(status="running") is sorted by created_at descending; the loop
\* of _on_inbox_file stops at its first task assigned to CODEX (0: none).
codex_running(T, L) ==
    LET C == {id \in L : T[id].status = "running" /\ T[id].assigned_to = "CODEX"}
    IN  IF C = {} THEN 0
        ELSE CHOOSE id \in C : \A other \in C : T[other].created_at <= T[id].created_at

\* _schedule_broadcast runs on the observer thread, which has no event loop:
\* asyncio.get_event_loop() raises RuntimeError there and the function passes.
_schedule_broadcast(f, event_type, task_id) == f

\* _on_inbox_file up to the status check: the RESULT pattern needs the task
\* stored and running, the CODEX_RESULT pattern a running task of CODEX.
_on_inbox_file ==
    /\ watcher.pc = "idle"
    /\ wq # << >>
    /\ wq' = Tail(wq)
    /\ LET f == Head(wq)
           task_id == IF f.kind = "RESULT"
                      THEN (IF f.task \in live /\ tasks[f.task].status = "running"
                            THEN f.task ELSE 0)
                      ELSE codex_running(tasks, live)
       IN  watcher' = IF task_id = 0 THEN IdleWatcher
                      ELSE [pc |-> "checked", file |-> f, task |-> task_id]
    /\ UNCHANGED << tasks, live, disk, agents, inbox, archive, feed, handlers, loop >>
    /\ UNCHANGED << feed_vars, unit_vars >>

\* path.read_text (an exception, caught and logged, when the file is gone),
\* then the in-memory part of tasks.complete
_on_inbox_file_complete ==
    /\ watcher.pc = "checked"
    /\ IF watcher.file \in inbox
       THEN /\ tasks' = complete(tasks, live, watcher.task, watcher.file.content)
            /\ watcher' = [watcher EXCEPT !.pc =
                   IF watcher.task \in live THEN "save" ELSE "saved"]
       ELSE /\ watcher' = IdleWatcher
            /\ UNCHANGED tasks
    /\ UNCHANGED << live, disk, agents, inbox, archive, feed, handlers, loop, wq >>
    /\ UNCHANGED << feed_vars, unit_vars >>

\* the _save of tasks.complete, on the observer thread
_on_inbox_file_save ==
    /\ watcher.pc = "save"
    /\ disk' = to_disk(tasks, live)
    /\ watcher' = [watcher EXCEPT !.pc = "saved"]
    /\ UNCHANGED << tasks, live, agents, inbox, archive, feed, handlers, loop, wq >>
    /\ UNCHANGED << feed_vars, unit_vars >>

\* registry.update_status(task.assigned_to or agent_name, "idle") (CODEX for
\* a codex result), _archive_files, _schedule_broadcast
_on_inbox_file_finish(failed) ==
    /\ watcher.pc = "saved"
    /\ failed \subseteq task_files(inbox, watcher.task)
    /\ agents' = registry_update_status(agents,
           IF watcher.file.kind = "CODEX_RESULT" THEN "CODEX"
           ELSE IF tasks[watcher.task].assigned_to # None
                THEN tasks[watcher.task].assigned_to
                ELSE watcher.file.agent,
           "idle", 0)
    /\ inbox' = _archive_files(inbox, archive, watcher.task, failed).inbox
    /\ archive' = _archive_files(inbox, archive, watcher.task, failed).archive
    /\ feed' = _schedule_broadcast(feed, "task_complete", watcher.task)
    /\ watcher' = IdleWatcher
    /\ UNCHANGED << tasks, live, disk, handlers, loop, wq >>
    /\ UNCHANGED << feed_vars, unit_vars >>

\* ---------------------------------------------------- live feed, in detail
\* The handler blocks that commit a transition of a task and then await
\* broadcast(...): producer p stands for the block that emits FeedEvents[p].
FeedEvents == << "task_dispatch", "task_cancelled", "task_retry", "task_running" >>

\* list.remove(x): the list without its first x (x is in the list)
remove(seq, x) ==
    LET k == CHOOSE i \in 1..Len(seq) : seq[i] = x /\ \A j \in 1..(i - 1) : seq[j] # x
    IN  SubSeq(seq, 1, k - 1) \o SubSeq(seq, k + 1, Len(seq))

\* "for ws in disconnected: _clients.remove(ws)" from position k: remove
\* raises ValueError for a websocket that is no longer in the list.
RECURSIVE remove_disconnected(_, _, _)
remove_disconnected(C, D, k) ==
    IF k > Len(D) THEN [clients |-> C, raised |-> FALSE]
    ELSE IF ~Contains(C, D[k]) THEN [clients |-> C, raised |-> TRUE]
    ELSE remove_disconnected(remove(C, D[k]), D, k + 1)

\* The loop of broadcast from the list iterator's position i, up to its next
\* suspension: a send on a closed connection raises and the websocket goes
\* to disconnected; a send on an open one writes the frame and awaits; a
\* send on a stalled one (the peer does not read, the buffer is full) awaits
\* with nothing delivered. After the last client the removals run.
RECURSIVE broadcast_from(_, _, _, _, _, _)
broadcast_from(C, S, R, event, i, D) ==
    IF i > Len(C)
    THEN [b |-> [pc |-> IF remove_disconnected(C, D, 1).raised THEN "raised" ELSE "done",
                 event |-> event, ws |-> 0, i |-> i, disconnected |-> D,
                 audience |-> {}],
          clients |-> remove_disconnected(C, D, 1).clients,
          received |-> R]
    ELSE IF S[C[i]] = "closed"
    THEN broadcast_from(C, S, R, event, i + 1, Append(D, C[i]))
    ELSE [b |-> [pc |-> "sending", event |-> event, ws |-> C[i], i |-> i + 1,
                 disconnected |-> D, audience |-> {}],
          clients |-> C,
          received |-> IF S[C[i]] = "open" THEN [R EXCEPT ![C[i]] = Append(@, event)]
                       ELSE R]

\* ws_feed up to its first await: accept, _clients.append(websocket)
ws_feed(ws) ==
    /\ sockets[ws] = "new"
    /\ sockets' = [sockets EXCEPT ![ws] = "open"]
    /\ _clients' = Append(_clients, ws)
    /\ UNCHANGED << broadcasts, commits, received >>
    /\ UNCHANGED << core_vars, unit_vars >>

\* the peer stops reading: sends to it no longer complete
peer_stalls(ws) ==
    /\ sockets[ws] = "open"
    /\ sockets' = [sockets EXCEPT ![ws] = "stalled"]
    /\ UNCHANGED << _clients, broadcasts, commits, received >>
    /\ UNCHANGED << core_vars, unit_vars >>

\* the connection breaks: sends on it raise from now on
peer_closes(ws) ==
    /\ sockets[ws] \in {"open", "stalled"}
    /\ sockets' = [sockets EXCEPT ![ws] = "closed"]
    /\ UNCHANGED << _clients, broadcasts, commits, received >>
    /\ UNCHANGED << core_vars, unit_vars >>

\* ws_feed's receive raised WebSocketDisconnect: the finally block removes
\* the websocket if it is still in _clients
ws_feed_finally(ws) ==
    /\ sockets[ws] = "closed"
    /\ sockets' = [sockets EXCEPT ![ws] = "gone"]
    /\ _clients' = IF Contains(_clients, ws) THEN remove(_clients, ws) ELSE _clients
    /\ UNCHANGED << broadcasts, commits, received >>
    /\ UNCHANGED << core_vars, unit_vars >>

\* a handler block: the transition is committed in the TaskManager, then
\* broadcast is called and runs up to its first suspension
produce(p) ==
    /\ broadcasts[p].pc = "idle"
    /\ commits' = Append(commits, FeedEvents[p])
    /\ LET r == broadcast_from(_clients, sockets, received, FeedEvents[p], 1, << >>)
       IN  /\ broadcasts' = [broadcasts EXCEPT ![p] =
                  [r.b EXCEPT !.audience =
                      {ws \in 1..MaxClients :
                          Contains(_clients, ws) /\ sockets[ws] = "open"}]]
           /\ _clients' = r.clients
           /\ received' = r.received
    /\ UNCHANGED sockets
    /\ UNCHANGED << core_vars, unit_vars >>

\* the send the broadcast awaits returns, or raises because the connection
\* broke meanwhile; the loop goes on to its next suspension
send_returns(p) ==
    /\ broadcasts[p].pc = "sending"
    /\ sockets[broadcasts[p].ws] # "stalled"
    /\ LET b == broadcasts[p]
           D == IF sockets[b.ws] = "open" THEN b.disconnected
                ELSE Append(b.disconnected, b.ws)
           r == broadcast_from(_clients, sockets, received, b.event, b.i, D)
       IN  /\ broadcasts' = [broadcasts EXCEPT ![p] = [r.b EXCEPT !.audience = b.audience]]
           /\ _clients' = r.clients
           /\ received' = r.received
    /\ UNCHANGED << sockets, commits >>
    /\ UNCHANGED << core_vars, unit_vars >>

\* ------------------------------------------- registry and dispatcher alone
\* a Dispatcher built with the registry: Dispatcher(registry)
REGISTRY == "registry"

\* AgentRegistry.update_status as the routes call it: ("active", task_id) at
\* dispatch, ("idle") at completion and cancel, ("idle" | "offline") at ping
AgentRegistry_update_status(name, status, task) ==
    /\ agents' = registry_update_status(agents, name, status, task)
    /\ UNCHANGED << tasks, live, disk, inbox, archive, feed, handlers, loop, watcher, wq >>
    /\ UNCHANGED << feed_vars, unit_vars >>

\* AgentRegistry.scan_agents (POST /agents/refresh, _on_state_change):
\* _agents.clear(), then an AgentInfo with status "idle" and no current
\* task for every agent folder
scan_agents ==
    /\ agents' = [a \in AgentNames |-> [status |-> "idle", current_task |-> 0]]
    /\ UNCHANGED << tasks, live, disk, inbox, archive, feed, handlers, loop, watcher, wq >>
    /\ UNCHANGED << feed_vars, unit_vars >>

\* Dispatcher.dispatch(task) of a dispatcher holding the registry
Dispatcher_dispatch(text) ==
    /\ decision' = [text |-> text, A |-> agents, result |-> dispatch(REGISTRY, agents, text)]
    /\ UNCHANGED core_vars
    /\ UNCHANGED << feed_vars, persist, debate, cli >>

\* ------------------------------------------------------ TaskManager alone
\* persist.pc: "ready" between calls, "save" after the in-memory part of a
\* mutator, "writing" inside write_text after the file was opened, "down"
\* after the process died. persist.file: "absent", "complete" (the whole
\* serialization of disk), "truncated" (opened for writing, nothing written),
\* "partial" (a prefix of a serialization). persist.before is the table at
\* the start of the mutator in progress or last run; persist.load_failed
\* tells that the running process found a file at startup and could not
\* load it.
Mutated(T, L) ==
    /\ persist.pc = "ready"
    /\ tasks' = T
    /\ live' = L
    /\ persist' = [persist EXCEPT !.pc = "save", !.before = to_disk(tasks, live),
                                  !.error = None]
    /\ UNCHANGED << disk, agents, inbox, archive, feed, handlers, loop, watcher, wq >>
    /\ UNCHANGED << feed_vars, decision, debate, cli >>

\* TaskManager.create up to its call of _save
TaskManager_create(text, priority) ==
    /\ Len(tasks) < MaxStoreTasks
    /\ Mutated(create(tasks, text, priority), live \cup {Len(tasks) + 1})

\* TaskManager.complete of a stored task up to its call of _save
TaskManager_complete(task_id, result) ==
    /\ task_id \in live
    /\ Mutated(complete(tasks, live, task_id, result), live)

\* TaskManager.delete of a stored task up to its call of _save
TaskManager_delete(task_id) ==
    /\ task_id \in live
    /\ Mutated(tasks, live \ {task_id})

\* _save raises before the file is touched (mkdir, json.dumps or open
\* fails): the exception leaves the mutator, the table stays as mutated
_save_raises ==
    /\ persist.pc = "save"
    /\ persist' = [persist EXCEPT !.pc = "ready", !.error = "OSError"]
    /\ UNCHANGED core_vars
    /\ UNCHANGED << feed_vars, decision, debate, cli >>

\* write_text opens the target itself with mode "w": the file is truncated
_save_open ==
    /\ persist.pc = "save"
    /\ persist' = [persist EXCEPT !.pc = "writing", !.file = "truncated"]
    /\ UNCHANGED core_vars
    /\ UNCHANGED << feed_vars, decision, debate, cli >>

\* write_text writes the document and closes the file
_save_write ==
    /\ persist.pc = "writing"
    /\ disk' = to_disk(tasks, live)
    /\ persist' = [persist EXCEPT !.pc = "ready", !.file = "complete"]
    /\ UNCHANGED << tasks, live, agents, inbox, archive, feed, handlers, loop, watcher, wq >>
    /\ UNCHANGED << feed_vars, decision, debate, cli >>

\* the write or the close fails (disk full): part of the document, or
\* nothing, is in the file and the exception leaves the mutator
_save_write_fails(written) ==
    /\ persist.pc = "writing"
    /\ persist' = [persist EXCEPT !.pc = "ready", !.file = written, !.error = "OSError"]
    /\ UNCHANGED core_vars
    /\ UNCHANGED << feed_vars, decision, debate, cli >>

\* the process dies: inside write_text the file keeps what had reached it
crash(written) ==
    /\ persist.pc # "down"
    /\ persist' = [persist EXCEPT
                       !.pc = "down",
                       !.file = IF persist.pc = "writing" THEN written ELSE @]
    /\ UNCHANGED core_vars
    /\ UNCHANGED << feed_vars, decision, debate, cli >>

\* TaskManager.__init__ and _load in a new process: the records of a
\* complete file; an empty table for no file, and for a file json.loads
\* rejects (the error is logged)
_load ==
    /\ persist.pc = "down"
    /\ live' = IF persist.file = "complete" THEN DOMAIN disk ELSE {}
    /\ tasks' = [id \in 1..Len(tasks) |->
                    IF persist.file = "complete" /\ id \in DOMAIN disk THEN disk[id]
                    ELSE tasks[id]]
    /\ persist' = [persist EXCEPT !.pc = "ready", !.error = None,
                                  !.before = to_disk(tasks', live'),
                                  !.load_failed = persist.file \in {"truncated", "partial"}]
    /\ UNCHANGED << disk, agents, inbox, archive, feed, handlers, loop, watcher, wq >>
    /\ UNCHANGED << feed_vars, decision, debate, cli >>

\* ------------------------------------------------------------ DebateEngine
\* the agents of a debate, in the order of the agents dict
DebateAgents == << "STROZ_SECURITY", "INZYNIER_PERF" >>

\* DebateSession(topics, status="running"): no topic completed yet
DebateSession(topics) ==
    [topics |-> topics, status |-> "running", results |-> 0,
     votes |-> [a \in {} |-> 0], error |-> None]

\* a value of the "votes" object of a vote response
IntValue(n) == [t |-> "int", n |-> n]
StrValue == [t |-> "str", n |-> 0]
NullValue == [t |-> "null", n |-> 0]

\* What an agent may answer to the vote prompt: text with no "{", text
\* whose braces hold no JSON, an object whose "votes" is a list, and objects
\* whose "votes" is an object of entries (name, value) in document order.
VoteResponses ==
    {[kind |-> k, entries |-> << >>] : k \in {"no_brace", "bad_json", "votes_list"}}
    \cup {[kind |-> "object", entries |-> << << name, v >> >>] :
              name \in {"STROZ_SECURITY", "INZYNIER_PERF", "NOBODY"},
              v \in {IntValue(0), IntValue(3), IntValue(9), StrValue, NullValue}}
    \cup {[kind |-> "object",
           entries |-> << << "STROZ_SECURITY", NullValue >>, << "INZYNIER_PERF", IntValue(4) >> >>]}

\* max(1, min(5, int(v)))
clamp(n) == IF n < 1 THEN 1 ELSE IF n > 5 THEN 5 ELSE n

\* the dict comprehension over vote_data.items() from entry i: the filter on
\* the key comes first, then int(v), which raises TypeError for null and
\* ValueError for a string that is no number
RECURSIVE vote_items(_, _, _, _, _)
vote_items(entries, i, agent_names, agent_name, acc) ==
    IF i > Len(entries) THEN [raised |-> None, votes |-> acc]
    ELSE LET k == entries[i][1]
             v == entries[i][2]
         IN  IF k \in agent_names /\ k # agent_name
             THEN IF v.t = "null" THEN [raised |-> "TypeError", votes |-> acc]
                  ELSE IF v.t = "str" THEN [raised |-> "ValueError", votes |-> acc]
                  ELSE vote_items(entries, i + 1, agent_names, agent_name,
                                  [x \in DOMAIN acc \cup {k} |->
                                      IF x = k THEN clamp(v.n) ELSE acc[x]])
             ELSE vote_items(entries, i + 1, agent_names, agent_name, acc)

\* the parsing of one vote response in _run_voting_round: the map recorded
\* for the voter, or the exception that leaves the round (json.JSONDecodeError
\* and ValueError are caught there and give the empty map)
parse_vote(response, agent_names, agent_name) ==
    LET empty == [a \in {} |-> 0]
        items == vote_items(response.entries, 1, agent_names, agent_name, empty)
    IN  CASE response.kind = "no_brace" -> [raised |-> None, votes |-> empty]
          [] response.kind = "bad_json" -> [raised |-> None, votes |-> empty]
          [] response.kind = "votes_list" -> [raised |-> "AttributeError", votes |-> empty]
          [] response.kind = "object" ->
                 IF items.raised = "ValueError" THEN [raised |-> None, votes |-> empty]
                 ELSE items

\* POST /debate/start: a session is stored and its id returned; the debate
\* is queued as a background task
start_debate(topics) ==
    /\ Len(debate.runs) < MaxDebates
    /\ debate' = [sessions |-> Append(debate.sessions, DebateSession(topics)),
                  runs |-> Append(debate.runs,
                              [session_id |-> Len(debate.sessions) + 1, topics |-> topics,
                               own |-> 0, pc |-> "queued", topic |-> 0, voter |-> 0,
                               votes |-> [a \in {} |-> 0]])]
    /\ UNCHANGED core_vars
    /\ UNCHANGED << feed_vars, decision, persist, cli >>

\* _run_debate_background calls run_debate(topics, agents), which stores a
\* DebateSession of its own and begins with the first topic
run_debate(r) ==
    /\ r \in 1..Len(debate.runs)
    /\ debate.runs[r].pc = "queued"
    /\ debate' = [sessions |-> Append(debate.sessions, DebateSession(debate.runs[r].topics)),
                  runs |-> [debate.runs EXCEPT ![r].own = Len(debate.sessions) + 1,
                                               ![r].pc = "rounds", ![r].topic = 1]]
    /\ UNCHANGED core_vars
    /\ UNCHANGED << feed_vars, decision, persist, cli >>

\* run_debate raises in _build_context, outside its try (a directory cannot
\* be read): _run_debate_background marks the session of session_id failed
run_debate_raises(r) ==
    /\ r \in 1..Len(debate.runs)
    /\ debate.runs[r].pc = "queued"
    /\ debate' = [sessions |-> [Append(debate.sessions, DebateSession(debate.runs[r].topics))
                                   EXCEPT ![debate.runs[r].session_id].status = "failed",
                                          ![debate.runs[r].session_id].error = "OSError"],
                  runs |-> [debate.runs EXCEPT ![r].own = Len(debate.sessions) + 1,
                                               ![r].pc = "finished"]]
    /\ UNCHANGED core_vars
    /\ UNCHANGED << feed_vars, decision, persist, cli >>

\* the analysis and the rebuttal round of the topic: every call returns a
\* text (an error is a text too); the voting round starts
_run_analysis_round(r) ==
    /\ r \in 1..Len(debate.runs)
    /\ debate.runs[r].pc = "rounds"
    /\ debate' = [debate EXCEPT !.runs[r].pc = "voting", !.runs[r].voter = 1,
                                !.runs[r].votes = [a \in {} |-> 0]]
    /\ UNCHANGED core_vars
    /\ UNCHANGED << feed_vars, decision, persist, cli >>

\* the set of the elements of a sequence of names
Names(seq) == {seq[i] : i \in 1..Len(seq)}

\* _run_voting_round: the call of the next voter returns response. An
\* exception leaves the round and run_debate marks its session failed; after
\* the last voter the topic result is appended, and after the last topic
\* the session is completed.
_run_voting_round(r, response) ==
    /\ r \in 1..Len(debate.runs)
    /\ debate.runs[r].pc = "voting"
    /\ LET run == debate.runs[r]
           agent_name == DebateAgents[run.voter]
           parsed == parse_vote(response, Names(DebateAgents), agent_name)
           votes == [a \in DOMAIN run.votes \cup {agent_name} |->
                        IF a = agent_name THEN parsed.votes ELSE run.votes[a]]
       IN  debate' =
             IF parsed.raised # None
             THEN [debate EXCEPT !.sessions[run.own].status = "failed",
                                 !.sessions[run.own].error = parsed.raised,
                                 !.runs[r].pc = "finished"]
             ELSE IF run.voter < Len(DebateAgents)
             THEN [debate EXCEPT !.runs[r].voter = run.voter + 1, !.runs[r].votes = votes]
             ELSE IF run.topic < run.topics
             THEN [debate EXCEPT !.sessions[run.own].results = @ + 1,
                                 !.sessions[run.own].votes = votes,
                                 !.runs[r].votes = votes,
                                 !.runs[r].topic = run.topic + 1,
                                 !.runs[r].pc = "rounds"]
             ELSE [debate EXCEPT !.sessions[run.own].results = @ + 1,
                                 !.sessions[run.own].votes = votes,
                                 !.sessions[run.own].status = "completed",
                                 !.runs[r].votes = votes,
                                 !.runs[r].pc = "finished"]
    /\ UNCHANGED core_vars
    /\ UNCHANGED << feed_vars, decision, persist, cli >>

\* GET /debate/{id}: the status and the number of completed topics of the
\* session stored under the id
get_debate_status(session_id) ==
    [status |-> debate.sessions[session_id].status,
     completed_topics |-> debate.sessions[session_id].results]

\* ---------------------------------------------------------- builder_cli.py
\* What urlopen meets: an answer 200, no server on the port, or an HTTP
\* error status of the API.
HttpErrors == {"400", "404", "409", "422", "500"}

Answers == {"ok", "unreachable"} \cup HttpErrors

\* The exception urlopen raises for an answer.
raised(answer) ==
    IF answer = "ok" THEN None
    ELSE IF answer = "unreachable" THEN "URLError" ELSE "HTTPError"

\* urllib.error.HTTPError is a subclass of urllib.error.URLError.
isinstance(exc, cls) == exc = cls \/ (exc = "HTTPError" /\ cls = "URLError")

\* The except clauses of each requesting function, in their written order,
\* with the exit status their body leads to (a 'return' of the command ends
\* main normally: status 0).
_get_except == << [cls |-> "URLError", code |-> 1] >>

_post_except == << [cls |-> "URLError", code |-> 1], [cls |-> "HTTPError", code |-> 1] >>

cmd_agent_except == << [cls |-> "HTTPError", code |-> 0] >>

\* A try statement: the first clause whose class the exception is an
\* instance of runs; an exception no clause catches ends the interpreter
\* with a traceback and status 1.
try(clauses, exc) ==
    LET matching == {i \in 1..Len(clauses) : isinstance(exc, clauses[i].cls)}
    IN  IF matching = {} THEN 1
        ELSE clauses[CHOOSE i \in matching : \A j \in matching : i <= j].code

_get(answer) ==
    IF answer = "ok" THEN [returned |-> TRUE, code |-> 0]
    ELSE [returned |-> FALSE, code |-> try(_get_except, raised(answer))]

_post(answer) ==
    IF answer = "ok" THEN [returned |-> TRUE, code |-> 0]
    ELSE [returned |-> FALSE, code |-> try(_post_except, raised(answer))]

\* cmd_agent and cmd_task call urlopen in a try of their own.
cmd_agent(answer) ==
    IF answer = "ok" THEN [returned |-> TRUE, code |-> 0]
    ELSE [returned |-> FALSE, code |-> try(cmd_agent_except, raised(answer))]

\* The requests each command makes, by the function that makes them.
Commands ==
    [status |-> << "_get" >>, health |-> << "_get" >>, agents |-> << "_get" >>,
     agent |-> << "cmd_agent" >>, tasks |-> << "_get" >>, task |-> << "cmd_agent" >>,
     new |-> << "_post" >>, dispatch |-> << "_post" >>,
     run |-> << "_post", "_post" >>, poll |-> << "_post" >>,
     retry |-> << "_post" >>, cancel |-> << "_post" >>, watch |-> << "_get" >>,
     logs |-> << "_get" >>, routing |-> << "_get" >>, help |-> << >>]

\* main: the command is read from argv; no command, or an unknown one,
\* prints the usage and returns.
main(cmd) ==
    /\ cli.pc = "shell"
    /\ cli' = IF Commands[cmd] = << >>
              THEN [cli EXCEPT !.pc = "exited", !.cmd = cmd]
              ELSE [cli EXCEPT !.pc = "request", !.cmd = cmd, !.n = 1]
    /\ UNCHANGED << core_vars, feed_vars, decision, persist, debate >>

\* One request of the command is answered.  A function that returns lets
\* the command go on to its next request, or end with status 0; cmd_watch
\* asks again until it is interrupted.
urlopen(answer) ==
    /\ cli.pc = "request"
    /\ LET by == Commands[cli.cmd][cli.n]
           r == IF by = "_get" THEN _get(answer)
                ELSE IF by = "_post" THEN _post(answer) ELSE cmd_agent(answer)
       IN  cli' = IF r.returned /\ cli.cmd = "watch"
                  THEN [cli EXCEPT !.answer = answer]
                  ELSE IF r.returned /\ cli.n < Len(Commands[cli.cmd])
                  THEN [cli EXCEPT !.n = cli.n + 1, !.answer = answer]
                  ELSE [cli EXCEPT !.pc = "exited", !.answer = answer, !.code = r.code]
    /\ UNCHANGED << core_vars, feed_vars, decision, persist, debate >>

\* ----------------------------------------------------------- specification
Slots == 1..MaxHandlers

\* the result files workers drop
ResultFiles ==
    {File("RESULT", id, a, c) : id \in live, a \in {"CLAUDE", "GEMINI"}, c \in Contents}
    \cup {File("CODEX_RESULT", 0, None, c) : c \in Contents}

\* The task routes and the inbox watcher: every request with the default
\* priority, tasks of the four routes.
Next ==
    \/ _save
    \/ /\ Len(tasks) < MaxTasks
       /\ \E text \in Texts, assigned_to \in {None, "CODEX"} :
             create_task(text, "medium", assigned_to)
    \/ create_task_assign
    \/ \E h \in Slots, id \in live, bridge \in {None, "telepathy"} :
          dispatch_task(h, id, None, bridge)
    \/ \E h \in Slots : dispatch_task_rejected(h)
    \/ \E h \in Slots : dispatch_ollama(h)
    \/ \E h \in Slots, c \in Responses : dispatch_ollama_result(h, TRUE, c)
    \/ \E h \in Slots, e \in BridgeErrors : dispatch_ollama_result(h, FALSE, e)
    \/ \E h \in Slots, written \in BOOLEAN : dispatch_file_drop(h, written)
    \/ \E h \in Slots, script_exists \in BOOLEAN : dispatch_codex(h, script_exists)
    \/ \E h \in Slots, success \in BOOLEAN : dispatch_codex_result(h, success)
    \/ \E h \in Slots : dispatch_unknown_bridge(h)
    \/ \E h \in Slots, id \in live : poll_task(h, id)
    \/ \E id \in live : poll_task_raises(id)
    \/ \E h \in Slots, failed \in SUBSET inbox : poll_archive(h, failed)
    \/ \E h \in Slots, id \in live : retry_task(h, id)
    \/ \E id \in live : cancel_task(id)
    \/ \E id \in live : cancel_task_rejected(id)
    \/ \E id \in live : retry_task_rejected(id)
    \/ \E id \in live : delete_task(id)
    \/ \E h \in Slots : broadcast_raised(h)
    \/ \E f \in ResultFiles : external_drop(f)
    \/ _on_inbox_file
    \/ _on_inbox_file_complete
    \/ _on_inbox_file_save
    \/ \E failed \in SUBSET inbox : _on_inbox_file_finish(failed)

Spec == Init /\ [][Next]_vars

\* Dependencies: tasks of one text and priority that are made to depend on
\* each other, deleted, and taken through the synchronous route.
NextDeps ==
    \/ _save
    \/ /\ Len(tasks) < MaxDepTasks
       /\ create_task("write a fibonacci function in python", "medium", None)
    \/ \E id \in live, dep \in live : add_dependency_call(id, dep)
    \/ \E id \in live : delete_task(id)
    \/ \E h \in Slots, id \in live : dispatch_task(h, id, None, None)
    \/ \E h \in Slots : dispatch_ollama(h)
    \/ \E h \in Slots, c \in Responses : dispatch_ollama_result(h, TRUE, c)

SpecDeps == Init /\ [][NextDeps]_vars

\* The queue: pending tasks of every priority, re-prioritised (also to a
\* string outside the enumeration), finished and deleted.
NextQueue ==
    \/ _save
    \/ /\ Len(tasks) < MaxQueueTasks
       /\ \E priority \in Priorities :
             create_task("write a fibonacci function in python", priority, None)
    \/ \E id \in live, priority \in PutPriorities : update_task(id, "priority", priority)
    \/ \E id \in live : update_task(id, "status", "done")
    \/ \E id \in live : delete_task(id)

SpecQueue == Init /\ [][NextQueue]_vars

\* The live feed: websockets connect, stall and break while handler blocks
\* commit transitions and broadcast them.
NextFeed ==
    \/ \E ws \in 1..MaxClients : ws_feed(ws)
    \/ \E ws \in 1..MaxClients : peer_stalls(ws)
    \/ \E ws \in 1..MaxClients : peer_closes(ws)
    \/ \E ws \in 1..MaxClients : ws_feed_finally(ws)
    \/ \E p \in 1..MaxProducers : produce(p)
    \/ \E p \in 1..MaxProducers : send_returns(p)

SpecFeed == Init /\ [][NextFeed]_vars

\* The registry and a dispatcher that holds it: statuses are set, the agent
\* folders are rescanned and tasks are classified and routed.
NextRegistry ==
    \/ \E name \in AgentNames, task \in 1..MaxTasks :
           AgentRegistry_update_status(name, "active", task)
    \/ \E name \in AgentNames, status \in {"idle", "offline"} :
           AgentRegistry_update_status(name, status, 0)
    \/ scan_agents
    \/ \E text \in Texts \cup ClassifyTexts : Dispatcher_dispatch(text)

SpecRegistry == Init /\ [][NextRegistry]_vars

\* The TaskManager and its file: mutators, the steps of _save, failures of
\* the write, and the process dying and starting again.
NextStore ==
    \/ \E priority \in {"medium", "high"} :
           TaskManager_create("build feature from scratch", priority)
    \/ \E task_id \in 1..MaxStoreTasks, result \in Responses :
           TaskManager_complete(task_id, result)
    \/ \E task_id \in 1..MaxStoreTasks : TaskManager_delete(task_id)
    \/ _save_raises
    \/ _save_open
    \/ _save_write
    \/ \E written \in {"truncated", "partial"} : _save_write_fails(written)
    \/ \E written \in {"truncated", "partial"} : crash(written)
    \/ _load

SpecStore == Init /\ [][NextStore]_vars

\* Debates: sessions are started, their background tasks run topic by
\* topic, and the voters answer the vote prompt in every way listed.
NextDebate ==
    \/ \E topics \in 1..MaxTopics : start_debate(topics)
    \/ \E r \in 1..MaxDebates : run_debate(r)
    \/ \E r \in 1..MaxDebates : run_debate_raises(r)
    \/ \E r \in 1..MaxDebates : _run_analysis_round(r)
    \/ \E r \in 1..MaxDebates, response \in VoteResponses : _run_voting_round(r, response)

SpecDebate == Init /\ [][NextDebate]_vars

\* The event loop runs a queued background task and resumes a debate whose
\* inference call has returned; every inference call returns.
SpecDebateLive ==
    /\ Init /\ [][NextDebate]_vars
    /\ \A r \in 1..MaxDebates :
           /\ WF_vars(run_debate(r) \/ run_debate_raises(r))
           /\ WF_vars(_run_analysis_round(r))
           /\ WF_vars(\E response \in VoteResponses : _run_voting_round(r, response))

\* The command line: one run of each command against each answer.
NextCli ==
    \/ \E cmd \in DOMAIN Commands : main(cmd)
    \/ \E answer \in Answers : urlopen(answer)

SpecCli == Init /\ [][NextCli]_vars

\* Dispatches alone: tasks are created and dispatched over their routes, the
\* inference calls return, and a broadcast may raise; nothing is cancelled,
\* retried, polled or deleted.
NextDispatch ==
    \/ _save
    \/ /\ Len(tasks) < MaxTasks
       /\ \E text \in Texts : create_task(text, "medium", None)
    \/ \E h \in Slots, id \in live : dispatch_task(h, id, None, None)
    \/ \E h \in Slots : dispatch_ollama(h)
    \/ \E h \in Slots, c \in Responses : dispatch_ollama_result(h, TRUE, c)
    \/ \E h \in Slots, e \in BridgeErrors : dispatch_ollama_result(h, FALSE, e)
    \/ \E h \in Slots, written \in BOOLEAN : dispatch_file_drop(h, written)
    \/ \E h \in Slots, script_exists \in BOOLEAN : dispatch_codex(h, script_exists)
    \/ \E h \in Slots, success \in BOOLEAN : dispatch_codex_result(h, success)
    \/ \E h \in Slots : broadcast_raised(h)

SpecDispatch == Init /\ [][NextDispatch]_vars

\* The event loop finishes the block it is in and resumes a handler whose
\* await has returned; every inference call returns (success, error or
\* timeout). Whether a broadcast raises is up to the subscribers.
SpecDispatchLive ==
    /\ Init /\ [][NextDispatch]_vars
    /\ WF_vars(_save)
    /\ \A h \in Slots :
           /\ WF_vars(dispatch_ollama(h))
           /\ WF_vars(\/ \E c \in Responses : dispatch_ollama_result(h, TRUE, c)
                      \/ \E e \in BridgeErrors : dispatch_ollama_result(h, FALSE, e))

\* ------------------------------------------------------------------ claims
Terminal == {"done", "failed"}

\* C1: a task whose status is done or failed changes status only through
\* retry, which sets it to pending and clears result and error.
C1_TerminalLeftOnlyByRetry ==
    [][\A id \in live :
          (id \in live' /\ tasks[id].status \in Terminal
             /\ tasks'[id].status # tasks[id].status)
          => /\ \E h \in Slots : retry_task(h, id)
             /\ tasks'[id].status = "pending"
             /\ tasks'[id].result = None
             /\ tasks'[id].error = None]_vars

Cancelled(id) ==
    id \in live /\ tasks[id].status = "failed" /\ tasks[id].error = CANCELLED

\* C2: once cancel has set a task to failed with error "Cancelled by user",
\* the response of the inference call that was in flight does not change the
\* task and no task_complete event is emitted for it.
C2_LateResponseIgnored ==
    [][\A h \in Slots :
          (handlers[h].pc = "executing" /\ Cancelled(handlers[h].task)
             /\ handlers'[h].pc = "idle")
          => /\ tasks'[handlers[h].task] = tasks[handlers[h].task]
             /\ loop'.etype # "task_complete"]_vars

\* C3: after cancel has committed for a task of a file-drop bridge, the
\* watcher does not rewrite the task when it processes a RESULT file: the
\* task stays failed with error "Cancelled by user" and no task_complete is
\* broadcast, in every interleaving of the two threads.
C3_WatcherLeavesCancelledTask ==
    [][(LoopIdle /\ watcher.pc # "idle" /\ watcher.file.kind = "RESULT"
          /\ Cancelled(watcher.task) /\ watcher' # watcher)
       => /\ tasks'[watcher.task] = tasks[watcher.task]
          /\ ~(feed' # feed /\ feed'.type = "task_complete")]_vars

\* the event-loop thread is between the mutation and the end of _save
LoopInMutator == loop.pc \in {"save", "create_save"} /\ (loop.write \/ loop.pc = "create_save")

\* the observer thread is between the mutation and the end of _save
WatcherInMutator == watcher.pc = "save"

\* C4: the watcher thread is never inside a TaskManager mutator (or its
\* persistence write) while an event-loop handler is inside one.
C4_MutatorsExclusive == ~(LoopInMutator /\ WatcherInMutator)

DepsOf(T, id) == {T[id].depends_on[i] : i \in 1..Len(T[id].depends_on)}

\* C5: a task whose status is not pending has every other stored task of
\* its depends_on in status done.
C5_AdvancedOnlyWhenReady ==
    \A id \in live :
        tasks[id].status # "pending"
        => \A d \in DepsOf(tasks, id) \ {id} : d \in live => tasks[d].status = "done"

SeqSet(q) == {q[i] : i \in 1..Len(q)}

\* C6: pending_queue() holds, once each, exactly the stored tasks that are
\* pending and whose dependencies are all stored and done.
C6_QueueIsReadyPending ==
    /\ SeqSet(pending_queue(tasks, live)) =
          {id \in live : /\ tasks[id].status = "pending"
                         /\ \A d \in DepsOf(tasks, id) :
                               d \in live /\ tasks[d].status = "done"}
    /\ Cardinality(SeqSet(pending_queue(tasks, live))) = Len(pending_queue(tasks, live))

\* C6 happens: a pending task whose only dependency has completed is the
\* queue, and the completed task is not in it.
C6_Witness ==
    \E a \in live, b \in live :
        /\ a # b
        /\ tasks[b].depends_on = << a >>
        /\ tasks[a].status = "done"
        /\ tasks[a].result \in Responses
        /\ tasks[b].status = "pending"
        /\ pending_queue(tasks, live) = << b >>

\* the stored tasks reachable from the set S along depends_on, in n steps
RECURSIVE Reach(_, _, _, _)
Reach(T, L, S, n) ==
    IF n = 0 THEN S
    ELSE Reach(T, L, S \cup UNION {DepsOf(T, id) \cap L : id \in S}, n - 1)

\* C7: the depends_on graph of the stored tasks is acyclic (a dependency
\* that would close a cycle, also on the task itself, is rejected).
C7_Acyclic ==
    \A id \in live : id \notin Reach(tasks, live, DepsOf(tasks, id) \cap live, Len(tasks))

\* C8: every id in a stored task's depends_on is the id of a stored task.
C8_DependenciesExist ==
    \A id \in live : DepsOf(tasks, id) \subseteq live

\* the rank the claim gives the four priorities
ClaimRank(priority) ==
    CASE priority = "critical" -> 0
      [] priority = "high" -> 1
      [] priority = "medium" -> 2
      [] priority = "low" -> 3

Ranked(q) == {i \in 1..Len(q) : tasks[q[i]].priority \in Priorities}

\* C9: pending_queue() is ordered by priority critical < high < medium < low
\* and, within a priority, by created_at ascending; next_task() is its first
\* element, None (0) when no task is pending and ready.
C9_QueueOrdered ==
    LET q == pending_queue(tasks, live)
    IN  /\ \A i \in Ranked(q), j \in Ranked(q) :
              i < j =>
                 \/ ClaimRank(tasks[q[i]].priority) < ClaimRank(tasks[q[j]].priority)
                 \/ /\ tasks[q[i]].priority = tasks[q[j]].priority
                    /\ tasks[q[i]].created_at < tasks[q[j]].created_at
        /\ next_task(tasks, live) =
              IF \E id \in live : /\ tasks[id].status = "pending"
                                    /\ \A d \in DepsOf(tasks, id) :
                                          d \in live /\ tasks[d].status = "done"
              THEN q[1] ELSE 0

\* C9 happens: three queued tasks, the first created after the second
\* (priority decides), the last two of one priority (created_at decides).
C9_Witness ==
    LET q == pending_queue(tasks, live)
    IN  /\ Len(q) = 3
        /\ tasks[q[1]].created_at > tasks[q[2]].created_at
        /\ tasks[q[1]].priority # tasks[q[2]].priority
        /\ tasks[q[2]].priority = tasks[q[3]].priority
        /\ next_task(tasks, live) = q[1]

\* the bridge of the dispatch in slot h reports failure, or fails mid-call
BridgeFails(h) ==
    \/ \E e \in BridgeErrors : dispatch_ollama_result(h, FALSE, e)
    \/ dispatch_file_drop(h, FALSE)
    \/ dispatch_codex(h, FALSE)
    \/ dispatch_codex_result(h, FALSE)

\* C10: when the bridge of a dispatch reports failure or fails mid-call, the
\* task ends the dispatch in status failed with a non-null error.
C10_BridgeFailureFailsTask ==
    [][\A h \in Slots :
          (BridgeFails(h) /\ handlers[h].task \in live)
          => /\ tasks'[handlers[h].task].status = "failed"
             /\ tasks'[handlers[h].task].error # None]_vars

\* C11: when the watcher has processed a RESULT file of a stored running
\* task, the task is done with the file's content as result, its agent is
\* idle with no current task, and a task_complete event for the task has been
\* broadcast on the live feed.
C11_ResultFilePickedUp ==
    [][(watcher.pc = "saved" /\ watcher.file.kind = "RESULT" /\ watcher'.pc = "idle"
          /\ watcher.task \in live)
       => /\ tasks'[watcher.task].status = "done"
          /\ tasks'[watcher.task].result = watcher.file.content
          /\ tasks[watcher.task].assigned_to \in DOMAIN agents
                => agents'[tasks[watcher.task].assigned_to] =
                      [status |-> "idle", current_task |-> 0]
          /\ feed' # feed
          /\ feed'.type = "task_complete"
          /\ feed'.task = watcher.task]_vars

\* the TASK_<id>_FOR_*.md and RESULT_<id>_FROM_*.md files in the set F
FilesOf(F, id) == {f \in F : f.task = id /\ (f.kind = "TASK" \/ f.kind = "RESULT")}

\* every file of the task but those whose move failed has left the inbox and
\* is in DONE/ under its name, and the task is as the completion left it
MovedExcept(id, failed) ==
    /\ \A f \in FilesOf(inbox, id) \ failed : f \notin inbox' /\ f \in archive'
    /\ \A f \in failed : f \in inbox'
    /\ id \in live => tasks'[id] = tasks[id]

C13_CodexResultCompletesOne ==
    [][(watcher' # watcher /\ (IF watcher.pc = "idle"
                               THEN wq # << >> /\ Head(wq).kind = "CODEX_RESULT"
                               ELSE watcher.file.kind = "CODEX_RESULT"))
       => /\ watcher.pc = "idle"
                => /\ tasks' = tasks
                   /\ IF \E id \in live : /\ tasks[id].status = "running"
                                          /\ tasks[id].assigned_to = "CODEX"
                      THEN /\ watcher'.task \in live
                           /\ tasks[watcher'.task].status = "running"
                           /\ tasks[watcher'.task].assigned_to = "CODEX"
                      ELSE watcher'.pc = "idle"
          /\ (watcher.pc = "checked" /\ watcher.task \in live)
                => /\ tasks'[watcher.task].status = "done"
                   /\ tasks'[watcher.task].result = watcher.file.content
                   /\ \A id \in live \ {watcher.task} : tasks'[id] = tasks[id]
          /\ (watcher.pc = "saved" /\ watcher'.pc = "idle")
                => watcher.file \notin inbox' /\ watcher.file \in archive']_vars

\* C14: cancel of a task that is not done or failed sets it to failed with
\* error "Cancelled by user" and leaves its assigned agent idle with no
\* current task; cancel takes no effect on a task that is done or failed
\* (the request is refused and nothing is written).
C14_CancelFailsAndFrees ==
    [][\A id \in live :
          /\ cancel_task(id)
                => /\ tasks[id].status \notin Terminal
                   /\ tasks'[id].status = "failed"
                   /\ tasks'[id].error = CANCELLED
          /\ (loop.pc = "save" /\ loop.etype = "task_cancelled" /\ loop.etask = id
                /\ loop'.pc = "idle" /\ tasks[id].assigned_to \in DOMAIN agents)
                => agents'[tasks[id].assigned_to] = [status |-> "idle", current_task |-> 0]
          /\ (tasks[id].status \in Terminal /\ cancel_task_rejected(id))
                => /\ tasks' = tasks
                   /\ agents' = agents
                   /\ loop' = loop]_vars

\* C14 happens: cancel has failed a dispatched task and its block goes on to
\* free the agent, which is active and holds that task.
C14_Witness ==
    \E id \in live :
        /\ loop.pc = "save"
        /\ loop.etype = "task_cancelled"
        /\ loop.etask = id
        /\ tasks[id].status = "failed"
        /\ tasks[id].error = CANCELLED
        /\ tasks[id].assigned_to \in DOMAIN agents
        /\ agents[tasks[id].assigned_to] = [status |-> "active", current_task |-> id]

\* C15: retry takes effect only on a task that is failed or done: it resets
\* the task to pending with result, error, assigned_to and task_type cleared
\* and emits task_retry before the handler re-dispatches; a retry of a task
\* in another status is refused and writes nothing. A dispatch starts only
\* in a dispatch request or in the re-dispatch of a retry.
C15_RetryResetsThenDispatches ==
    [][/\ \A h \in Slots, id \in live :
             retry_task(h, id)
             => /\ tasks[id].status \in Terminal
                /\ tasks'[id] = [tasks[id] EXCEPT !.status = "pending", !.result = None,
                                                  !.error = None, !.assigned_to = None,
                                                  !.task_type = None]
                /\ loop'.etype = "task_retry"
                /\ loop'.etask = id
                /\ handlers'[h].pc = "retry_dispatch"
       /\ \A id \in live :
             (tasks[id].status \notin Terminal /\ retry_task_rejected(id)) => tasks' = tasks
       /\ \A h \in Slots :
             (handlers'[h].pc = "dispatched" /\ handlers[h].pc # "dispatched")
             => /\ handlers[h].pc \in {"idle", "retry_dispatch"}
                /\ \E id \in live, a \in AgentNames \cup {None}, b \in {None, "telepathy"} :
                      dispatch_task(h, id, a, b)
                /\ ~(loop.pc = "save" /\ loop.etype = "task_retry")]_vars

\* C15 happens: a retry has reset a task and its task_retry is about to be
\* broadcast, the re-dispatch not yet started.
C15_Witness ==
    \E h \in Slots, id \in live :
        /\ handlers[h].pc = "retry_dispatch"
        /\ handlers[h].task = id
        /\ loop.pc = "save"
        /\ loop.etype = "task_retry"
        /\ tasks[id].status = "pending"
        /\ tasks[id].assigned_to = None
        /\ \E f \in archive : f.task = id

\* C16: a dispatch through the ollama bridge takes the task to assigned with
\* task_dispatch, then to running with task_running, and the response of the
\* bridge takes the running task to done with task_complete or to failed
\* with task_failed; task_complete is emitted for a task that is done.
C16_OllamaLifecycle ==
    [][\A h \in Slots :
          /\ (handlers'[h].pc = "dispatched" /\ handlers[h].pc # "dispatched"
                /\ handlers'[h].bridge = "ollama")
                => /\ tasks'[handlers'[h].task].status = "assigned"
                   /\ loop'.etype = "task_dispatch"
          /\ (handlers[h].pc = "dispatched" /\ handlers'[h].pc = "executing")
                => /\ handlers[h].task \in live
                         => tasks'[handlers[h].task].status = "running"
                   /\ loop'.etype = "task_running"
          /\ (handlers[h].pc = "executing" /\ handlers'[h].pc = "idle"
                /\ ~broadcast_raised(h))
                => /\ handlers[h].task \in live
                   /\ tasks[handlers[h].task].status = "running"
                   /\ \/ /\ tasks'[handlers[h].task].status = "done"
                         /\ loop'.etype = "task_complete"
                      \/ /\ tasks'[handlers[h].task].status = "failed"
                         /\ loop'.etype = "task_failed"]_vars

\* the agent holds no task and is not offline
Available(name) == agents[name].status # "offline" /\ agents[name].current_task = 0

\* C20: a dispatch without overrides of a task whose routed agent is offline
\* or holds a task, while OLLAMA_WORKER is available, goes to OLLAMA_WORKER
\* through the ollama bridge.
C20_FallbackWhenBusy ==
    [][\A h \in Slots, id \in live :
          (/\ dispatch_task(h, id, None, None)
           /\ ROUTING_TABLE(classify(tasks[id].text)).agent \in DOMAIN agents
           /\ ~Available(ROUTING_TABLE(classify(tasks[id].text)).agent)
           /\ Available("OLLAMA_WORKER"))
          => /\ handlers'[h].agent = "OLLAMA_WORKER"
             /\ handlers'[h].bridge = "ollama"
             /\ tasks'[id].assigned_to = "OLLAMA_WORKER"]_vars

\* position of an event in a list of distinct events
Pos(seq, x) == CHOOSE i \in 1..Len(seq) : seq[i] = x

\* C17: the producers are handler blocks that commit transitions of one task
\* (dispatch's assign, a cancel, a retry). A subscriber that is still
\* connected has received the events of those transitions in the order in
\* which the transitions were committed.
C17_EventsInCommitOrder ==
    \A ws \in 1..MaxClients :
        sockets[ws] = "open" =>
            \A a, b \in 1..Len(received[ws]) :
                a < b => Pos(commits, received[ws][a]) < Pos(commits, received[ws][b])

\* C18: a producer is never held up by a subscriber: whatever the
\* subscribers do, a handler that has called broadcast can take its next
\* step (the broadcast is not waiting for a subscriber's send to finish).
C18_ProducerNeverWaits ==
    \A p \in 1..MaxProducers :
        broadcasts[p].pc = "sending" => ENABLED send_returns(p)

\* C19: a broadcast that met a failing subscriber completes normally for its
\* caller (no error reaches the producer) and has then removed that
\* subscriber from the subscriber set, also when another broadcast or the
\* subscriber's own disconnect handler saw the same failure.
C19_FailedSubscriberDropped ==
    \A p \in 1..MaxProducers :
        /\ broadcasts[p].pc # "raised"
        /\ broadcasts[p].pc = "done" =>
               \A k \in 1..Len(broadcasts[p].disconnected) :
                   ~Contains(_clients, broadcasts[p].disconnected[k])

\* the agent is not offline and holds no task, in the registry map A
AvailableIn(A, name) == A[name].status # "offline" /\ A[name].current_task = 0

\* the registry with every agent idle and free
AllIdle == [a \in AgentNames |-> [status |-> "idle", current_task |-> 0]]

\* C21: when the agent the routing table names and OLLAMA_WORKER were both
\* unavailable at a call of dispatch, the decision is the one of the routing
\* table, and it differs from the decision the same task gets when the agent
\* is available: the caller can tell the two apart.
C21_BusyDecisionMarked ==
    LET primary == ROUTING_TABLE(classify(decision.text)).agent
    IN  (/\ decision.text # None
         /\ primary \in AgentNames
         /\ ~AvailableIn(decision.A, primary)
         /\ ~AvailableIn(decision.A, "OLLAMA_WORKER"))
        => /\ decision.result.agent = primary
           /\ decision.result.bridge = ROUTING_TABLE(classify(decision.text)).bridge
           /\ decision.result # dispatch(REGISTRY, AllIdle, decision.text)

\* C22: a scan of the agent folders keeps the status and the current task
\* of every agent that is present before and after it.
C22_ScanPreservesLiveness ==
    [][scan_agents =>
          \A a \in (DOMAIN agents) \cap (DOMAIN agents') : agents'[a] = agents[a]]_vars

\* the highest match count of a rule on the text
MaxCount(text) ==
    CHOOSE n \in 0..3 :
        /\ \A i \in 1..Len(_INTENT_PATTERNS) : findall(text, _INTENT_PATTERNS[i]) <= n
        /\ n = 0 \/ \E i \in 1..Len(_INTENT_PATTERNS) : findall(text, _INTENT_PATTERNS[i]) = n

\* C23: the type returned for a text is the first-declared type among those
\* whose rule has the highest match count on it, code_simple when no rule
\* matches, and a repeated call on the same text returns the same type.
C23_ClassifyDeterministic ==
    [][decision'.text # None =>
          /\ MaxCount(decision'.text) = 0 => decision'.result.task_type = "code_simple"
          /\ MaxCount(decision'.text) > 0 =>
                \E i \in 1..Len(_INTENT_PATTERNS) :
                    /\ decision'.result.task_type = _INTENT_PATTERNS[i]
                    /\ findall(decision'.text, _INTENT_PATTERNS[i]) = MaxCount(decision'.text)
                    /\ \A j \in 1..(i - 1) :
                           findall(decision'.text, _INTENT_PATTERNS[j]) < MaxCount(decision'.text)
          /\ decision.text = decision'.text =>
                decision'.result.task_type = decision.result.task_type]_vars

\* a text on which two rules tie for the highest count has been classified
C23_Witness ==
    /\ decision.text = "review the design"
    /\ decision.result.task_type = "architecture"
    /\ findall(decision.text, "review") = findall(decision.text, "architecture")

\* C24: at every instant, a crash inside a write included, the task file
\* holds a complete serialization of the table before the mutation in
\* progress or of the table after it (no file at all before the first
\* write): never a partial or an empty document.
C24_FileAlwaysComplete ==
    /\ persist.file \in {"absent", "complete"}
    /\ (persist.file = "complete" /\ persist.pc # "down") =>
           disk \in {persist.before, to_disk(tasks, live)}

\* C25: when the write of a mutating operation fails, the operation has
\* failed with an error and the table in memory is the table from before the
\* operation.
C25_FailedWriteReverted ==
    (persist.pc = "ready" /\ persist.error # None) =>
        to_disk(tasks, live) = persist.before

\* C26: a process that found the task file unreadable at startup has an
\* empty table, accepts no mutation and leaves the file as it found it.
C26_UnreadableFileKept ==
    /\ persist.load_failed =>
           /\ live = {}
           /\ persist.pc \in {"ready", "down"}
           /\ persist.file \in {"truncated", "partial"}

\* C27: a stored task has an agent in assigned_to exactly when its status is
\* assigned, running or done, or failed after an assignment (a task that
\* failed with no assignment has none).
C27_AssignedToMatchesStatus ==
    \A id \in live :
        /\ tasks[id].assigned_to # None =>
               tasks[id].status \in {"assigned", "running", "done", "failed"}
        /\ tasks[id].status \in {"assigned", "running", "done"} =>
               tasks[id].assigned_to # None

\* C28: whatever requests were made, PUT /tasks/{id} with any field values
\* included, the status of every stored task is one of pending, assigned,
\* running, done, failed and its priority one of critical, high, medium, low.
C28_StatusAndPriorityInRange ==
    \A id \in live :
        /\ tasks[id].status \in {"pending", "assigned", "running", "done", "failed"}
        /\ tasks[id].priority \in {"critical", "high", "medium", "low"}

\* C29: the task a handler got from the TaskManager is a copy: the fields
\* the retry handler writes on it (status, result, error, assigned_to,
\* task_type) and the task_type the dispatcher writes on it leave the
\* stored task as it was.
C29_ReturnedTaskIsCopy ==
    [][\A h \in Slots, id \in 1..MaxTasks :
          /\ retry_task(h, id) => tasks'[id] = tasks[id]
          /\ (\E bridge \in {None, "telepathy"} : dispatch_task(h, id, None, bridge)) =>
                 tasks'[id].task_type = tasks[id].task_type]_vars

\* C30: the response of GET /queue holds exactly the stored tasks that are
\* pending and whose dependencies are all done, by priority and then by
\* created_at ascending: a pending task with an unmet dependency is not in
\* it. (Stated for tables whose dependencies form no cycle.)
C30_QueueRouteReadyOnly ==
    LET q == get_queue(tasks, live)
    IN  C7_Acyclic =>
        /\ SeqSet(q) = {id \in live : tasks[id].status = "pending" /\ is_ready(tasks, live, id)}
        /\ \A i, j \in 1..Len(q) :
              i < j =>
                 \/ ClaimRank(tasks[q[i]].priority) < ClaimRank(tasks[q[j]].priority)
                 \/ /\ tasks[q[i]].priority = tasks[q[j]].priority
                    /\ tasks[q[i]].created_at < tasks[q[j]].created_at

\* C31: no poll of a task ends in an error: in no reachable state does a
\* poll of a stored task raise (a poll completes the running task whose
\* result is there and otherwise answers with the task unchanged).
C31_PollNeverRaises ==
    \A id \in 1..MaxTasks : ~ENABLED poll_task_raises(id)

\* C32: the session stored under the session_id that POST /debate/start
\* returned eventually has status completed or failed (every inference call
\* returns), and GET /debate/{id} then reports that status.
C32_DebateSessionFinishes ==
    \A r \in 1..MaxDebates :
        (Len(debate.runs) >= r)
        ~> (/\ Len(debate.runs) >= r
            /\ get_debate_status(debate.runs[r].session_id).status \in {"completed", "failed"})

\* the response holds no votes object of integers: no JSON object at all, a
\* "votes" that is no object, or a value that is no number
Malformed(response) ==
    \/ response.kind # "object"
    \/ \E i \in 1..Len(response.entries) : response.entries[i][2].t # "int"

\* C33: in every voting round the map recorded for a voter holds only
\* participating agents other than the voter, with integer scores from 1 to
\* 5, and a malformed response gives the voter the empty map and fails
\* neither the round nor the session.
C33_VotesWellFormed ==
    [][\A r \in 1..MaxDebates, response \in VoteResponses :
          _run_voting_round(r, response) =>
              LET agent_name == DebateAgents[debate.runs[r].voter]
              IN  /\ debate'.sessions[debate.runs[r].own].status # "failed"
                  /\ agent_name \in DOMAIN debate'.runs[r].votes
                  /\ \A k \in DOMAIN debate'.runs[r].votes[agent_name] :
                        /\ k \in Names(DebateAgents) \ {agent_name}
                        /\ debate'.runs[r].votes[agent_name][k] \in 1..5
                  /\ Malformed(response) =>
                        debate'.runs[r].votes[agent_name] = [a \in {} |-> 0]]_vars

\* C34: a run of the CLI ends with status 0 when its request succeeded, 1
\* when the API was unreachable and 2 when the API answered with an HTTP
\* error status, for the commands that GET and for those that POST.
C34_ExitCodes ==
    (cli.pc = "exited" /\ cli.answer # None)
    => cli.code = (IF cli.answer = "ok" THEN 0
                   ELSE IF cli.answer = "unreachable" THEN 1 ELSE 2)

\* C35: the registry and the task table agree: whenever no block of the
\* event loop and no watcher pickup is in progress, an agent's current_task
\* is null or the id of an existing task that is assigned or running and
\* assigned to that agent, and no agent is idle while a task assigned to it
\* is running.
C35_RegistryMatchesTasks ==
    (LoopIdle /\ watcher.pc = "idle")
    => \A a \in AgentNames :
          /\ agents[a].current_task # 0
             => /\ agents[a].current_task \in live
                /\ tasks[agents[a].current_task].status \in {"assigned", "running"}
                /\ tasks[agents[a].current_task].assigned_to = a
          /\ agents[a].status = "idle"
             => ~\E id \in live : /\ tasks[id].status = "running"
                                  /\ tasks[id].assigned_to = a

\* C36: two dispatch requests for one task that overlap in time cause at
\* most one bridge execution: never are two handlers inside the inference
\* call (or the codex subprocess) for the same task at once.
C36_OneBridgeExecution ==
    \A h1, h2 \in Slots :
        (/\ h1 # h2
         /\ handlers[h1].pc \in {"executing", "codex_exec"}
         /\ handlers[h2].pc \in {"executing", "codex_exec"})
        => handlers[h1].task # handlers[h2].task

\* C37: a running file-drop task is completed at most once per dispatch:
\* a pickup by the watcher or by a poll writes the result only of a task
\* that is still running at that moment, so the one that comes second does
\* not complete it again.
C37_CompletedOnce ==
    [][/\ (_on_inbox_file_complete /\ watcher.file \in inbox /\ watcher.task \in live)
          => tasks[watcher.task].status = "running"
       /\ \A h \in Slots, id \in 1..MaxTasks :
             poll_task(h, id) => tasks[id].status = "running"]_vars

\* C38: a dispatch request answered with a client error for an unknown
\* bridge override has changed neither the task's status, assigned_to and
\* task_type nor the routed agent's status and current_task.
C38_RejectedDispatchChangesNothing ==
    [][\A h \in Slots : dispatch_unknown_bridge(h) => ~handlers[h].wrote]_vars

\* the number of times event x occurs in seq
Count(seq, x) == Cardinality({i \in 1..Len(seq) : seq[i] = x})

\* C39: when a broadcast has ended, every websocket that was subscribed and
\* healthy when it was called and still is (it never is again once it was
\* not) has received the broadcast's event exactly once, whatever connects,
\* disconnects or overlapping broadcasts happened while the broadcast was
\* suspended in a send.
C39_HealthySubscriberReceivesOnce ==
    \A p \in 1..MaxProducers :
        broadcasts[p].pc \in {"done", "raised"} =>
            \A ws \in broadcasts[p].audience :
                (sockets[ws] = "open" /\ Contains(_clients, ws))
                => Count(received[ws], broadcasts[p].event) = 1

\* C40: every dispatch routed to the ollama bridge terminates: once a
\* handler has dispatched a task to the ollama bridge, the task eventually
\* is done or failed and the routed agent eventually is idle with no
\* current task, whatever the subscribers of the live feed do.
C40_OllamaDispatchTerminates ==
    \A h \in Slots, id \in 1..MaxTasks :
        (/\ handlers[h].pc = "dispatched"
         /\ handlers[h].bridge = "ollama"
         /\ handlers[h].task = id)
        ~> (/\ Len(tasks) >= id
            /\ tasks[id].status \in Terminal
            /\ agents["OLLAMA_WORKER"].status = "idle"
            /\ agents["OLLAMA_WORKER"].current_task = 0)

====
